---- MODULE Spec2Model ----
(***************************************************************************)
(* Version model of overlay_tools (core/versions.py): the strict Gentoo    *)
(* version grammar, its translation to PEP 440, compare_versions, the      *)
(* printing and the normalization of versions, and the update decision of  *)
(* check-updates (cli/check_updates.py).                                   *)
(*                                                                         *)
(* A string is a sequence of one-character strings, <<"1", ".", "2">> for  *)
(* "1.2", so that regular-expression matching, formatting and Python's     *)
(* code-point string comparison are computed character by character.      *)
(* The alphabet of the version strings is: newline, space, "-", ".",       *)
(* "0".."9", "V", "_", "a".."z". "!" (PEP 440 epoch) and "+" (PEP 440      *)
(* local version) are outside the alphabet, so those two parts of the      *)
(* PEP 440 pattern never match.                                            *)
(***************************************************************************)
EXTENDS Integers, Sequences, FiniteSets, TLC

VARIABLES a, b, c, pc, res, packages, results, exit_code,
          args, frame, tree, head, log

vars == <<a, b, c, pc, res, packages, results, exit_code,
          args, frame, tree, head, log>>

\* The state of a check-updates run.
run_vars == <<packages, results, exit_code, args, frame, tree, head, log>>

----------------------------------------------------------------------------
(* Characters and strings *)

Digits == <<"0", "1", "2", "3", "4", "5", "6", "7", "8", "9">>

Lowers == <<"a", "b", "c", "d", "e", "f", "g", "h", "i", "j", "k", "l", "m",
            "n", "o", "p", "q", "r", "s", "t", "u", "v", "w", "x", "y", "z">>

DigitSet == {Digits[k] : k \in 1..Len(Digits)}

LowerSet == {Lowers[k] : k \in 1..Len(Lowers)}

\* \d of the patterns, on the alphabet.
IsDigit(ch) == ch \in DigitSet

\* [a-z] of GENTOO_VERSION_RE.
IsLower(ch) == ch \in LowerSet

\* \s of the patterns, on the alphabet.
IsSpace(ch) == ch \in {" ", "\n"}

\* The value of a decimal digit.
DigitValue ==
  ("0" :> 0) @@ ("1" :> 1) @@ ("2" :> 2) @@ ("3" :> 3) @@ ("4" :> 4) @@
  ("5" :> 5) @@ ("6" :> 6) @@ ("7" :> 7) @@ ("8" :> 8) @@ ("9" :> 9)

\* Python's ord() on the alphabet.
OrdTable ==
  ("\n" :> 10) @@ (" " :> 32) @@ ("-" :> 45) @@ ("." :> 46) @@ ("V" :> 86) @@
  ("_" :> 95) @@ [ch \in DigitSet |-> 48 + DigitValue[ch]] @@
  [ch \in LowerSet |-> 96 + (CHOOSE k \in 1..Len(Lowers) : Lowers[k] = ch)]

Ord(ch) == OrdTable[ch]

\* str.lower() of one character (re.IGNORECASE of the PEP 440 pattern).
Lower(ch) == IF ch = "V" THEN "v" ELSE ch

\* Python's a < b on str: the first differing code point decides, a proper
\* prefix is smaller.
RECURSIVE StrLessFrom(_, _, _)
StrLessFrom(x, y, i) ==
  IF i > Len(y) THEN FALSE
  ELSE IF i > Len(x) THEN TRUE
  ELSE IF x[i] = y[i] THEN StrLessFrom(x, y, i + 1)
  ELSE Ord(x[i]) < Ord(y[i])

StrLess(x, y) == StrLessFrom(x, y, 1)

\* Python's int() of a non-empty digit string (leading zeros allowed).
RECURSIVE StrToInt(_)
StrToInt(ds) ==
  IF ds = <<>> THEN 0
  ELSE 10 * StrToInt(SubSeq(ds, 1, Len(ds) - 1)) + DigitValue[ds[Len(ds)]]

\* Python's str() of a non-negative int.
RECURSIVE IntToStr(_)
IntToStr(n) ==
  IF n < 10 THEN <<Digits[n + 1]>>
  ELSE Append(IntToStr(n \div 10), Digits[(n % 10) + 1])

\* The position after the longest run of digits of s that starts at i
\* (i itself when s[i] is no digit): the greedy [0-9]+ / \d+.
RECURSIVE SpanDigits(_, _)
SpanDigits(s, i) ==
  IF i <= Len(s) /\ IsDigit(s[i]) THEN SpanDigits(s, i + 1) ELSE i

\* The position after the greedy \d+(?:\.\d+)* that starts at i, i when
\* there is not even one digit. A "." is taken only with a digit after it.
RECURSIVE SpanDotted(_, _)
SpanDotted(s, i) ==
  LET j == SpanDigits(s, i)
  IN IF j = i THEN i
     ELSE IF j + 1 <= Len(s) /\ s[j] = "." /\ IsDigit(s[j + 1])
          THEN SpanDotted(s, j + 1)
          ELSE j

\* Whether the literal lit stands in s at position i, letter case ignored
\* when fold is TRUE.
LitAt(s, i, lit, fold) ==
  /\ i + Len(lit) - 1 <= Len(s)
  /\ \A k \in 1..Len(lit) :
       (IF fold THEN Lower(s[i + k - 1]) ELSE s[i + k - 1]) = lit[k]

\* The first alternative of the ordered alternation alts that stands in s at
\* i (<<>> when none does): a regex alternation a|b|c takes the first that
\* matches.
RECURSIVE FirstAlt(_, _, _, _)
FirstAlt(s, i, alts, fold) ==
  IF alts = <<>> THEN <<>>
  ELSE IF LitAt(s, i, Head(alts), fold) THEN Head(alts)
  ELSE FirstAlt(s, i, Tail(alts), fold)

\* Python's None for an int-valued field.
NoInt == -1

----------------------------------------------------------------------------
(* versions.py: the strict grammar *)

SuffixAlts == << <<"a", "l", "p", "h", "a">>, <<"b", "e", "t", "a">>,
                 <<"p", "r", "e">>, <<"r", "c">>, <<"p">> >>

\* GENTOO_VERSION_RE, group by group. Each step takes the match so far,
\* [ok, pos (the next position), and the groups matched], and adds one group;
\* a group that does not take part is <<>> (None).

\* (?P<base>\d+(?:\.\d+)*) ending before position e.
BaseGroup(v, e) == [ok |-> e > 1, pos |-> e, base |-> SubSeq(v, 1, e - 1)]

\* (?P<letter>[a-z])?
LetterGroup(v, m) ==
  IF m.pos <= Len(v) /\ IsLower(v[m.pos])
  THEN [ok |-> m.ok, pos |-> m.pos + 1, base |-> m.base, letter |-> <<v[m.pos]>>]
  ELSE [ok |-> m.ok, pos |-> m.pos, base |-> m.base, letter |-> <<>>]

\* (?:_(?P<suffix>alpha|beta|pre|rc|p) ... )? with the suffix found at m.pos + 1.
SuffixGroup(v, m, suffix) ==
  [ok |-> m.ok, base |-> m.base, letter |-> m.letter, suffix |-> suffix,
   pos |-> IF suffix = <<>> THEN m.pos ELSE m.pos + 1 + Len(suffix)]

\* (?P<suffix_num>\d+)? ending before position e (only after a suffix).
SuffixNumGroup(v, m, e) ==
  [ok |-> m.ok, base |-> m.base, letter |-> m.letter, suffix |-> m.suffix,
   suffix_num |-> IF m.suffix = <<>> THEN <<>> ELSE SubSeq(v, m.pos, e - 1),
   pos |-> IF m.suffix = <<>> THEN m.pos ELSE e]

\* (?:-r(?P<revision>\d+))? with the digits ending before position e.
RevisionGroup(v, m, e) ==
  IF LitAt(v, m.pos, <<"-", "r">>, FALSE) /\ e > m.pos + 2
  THEN [ok |-> m.ok, base |-> m.base, letter |-> m.letter, suffix |-> m.suffix,
        suffix_num |-> m.suffix_num, revision |-> SubSeq(v, m.pos + 2, e - 1), pos |-> e]
  ELSE [ok |-> m.ok, base |-> m.base, letter |-> m.letter, suffix |-> m.suffix,
        suffix_num |-> m.suffix_num, revision |-> <<>>, pos |-> m.pos]

\* "$": the end of the string, or just before one trailing newline.
EndAnchor(v, m) ==
  IF m.ok /\ (m.pos = Len(v) + 1 \/ (m.pos = Len(v) /\ v[Len(v)] = "\n"))
  THEN [ok |-> TRUE, base |-> m.base, letter |-> m.letter, suffix |-> m.suffix,
        suffix_num |-> m.suffix_num, revision |-> m.revision]
  ELSE [ok |-> FALSE]

MatchRevision(v, m) == EndAnchor(v, RevisionGroup(v, m, SpanDigits(v, m.pos + 2)))

MatchSuffixNum(v, m) == MatchRevision(v, SuffixNumGroup(v, m, SpanDigits(v, m.pos)))

MatchSuffix(v, m) ==
  MatchSuffixNum(v, SuffixGroup(v, m, IF m.pos <= Len(v) /\ v[m.pos] = "_"
                                      THEN FirstAlt(v, m.pos + 1, SuffixAlts, FALSE)
                                      ELSE <<>>))

\* GENTOO_VERSION_RE.match(v): [ok |-> FALSE] for no match, else the named
\* groups base, letter, suffix, suffix_num and revision as strings.
GENTOO_VERSION_RE(v) == MatchSuffix(v, LetterGroup(v, BaseGroup(v, SpanDotted(v, 1))))

\* parse_gentoo_version(v): [ok |-> FALSE] when it raises VersionError, else
\* the GentooVersion (letter/suffix_type <<>> and suffix_num/revision NoInt
\* for None).
parse_gentoo_version(v) ==
  LET match == GENTOO_VERSION_RE(v)
  IN IF ~match.ok THEN [ok |-> FALSE]
     ELSE [ok |-> TRUE,
           base |-> match.base,
           letter |-> match.letter,
           suffix_type |-> match.suffix,
           suffix_num |-> IF match.suffix_num # <<>>
                          THEN StrToInt(match.suffix_num) ELSE NoInt,
           revision |-> IF match.revision # <<>>
                        THEN StrToInt(match.revision) ELSE NoInt]

\* f"{self.suffix_num or 0}": None and 0 both print as "0".
SuffixNumOr0(gv) == IntToStr(IF gv.suffix_num = NoInt THEN 0 ELSE gv.suffix_num)

\* GentooVersion.to_pep440: the revision is not part of the result.
to_pep440(gv) ==
  LET s == gv.base \o gv.letter
  IN CASE gv.suffix_type = <<"a", "l", "p", "h", "a">> -> s \o <<"a">> \o SuffixNumOr0(gv)
       [] gv.suffix_type = <<"b", "e", "t", "a">> -> s \o <<"b">> \o SuffixNumOr0(gv)
       [] gv.suffix_type = <<"r", "c">> -> s \o <<"r", "c">> \o SuffixNumOr0(gv)
       [] gv.suffix_type = <<"p", "r", "e">> -> s \o <<".", "d", "e", "v">> \o SuffixNumOr0(gv)
       [] gv.suffix_type = <<"p">> -> s \o <<".", "p", "o", "s", "t">> \o SuffixNumOr0(gv)
       [] OTHER -> s

----------------------------------------------------------------------------
(* packaging.version (PEP 440), as compare_versions uses it *)

Separators == {"-", "_", "."}

PreAlts == << <<"a", "l", "p", "h", "a">>, <<"a">>, <<"b", "e", "t", "a">>, <<"b">>,
              <<"p", "r", "e", "v", "i", "e", "w">>, <<"p", "r", "e">>,
              <<"c">>, <<"r", "c">> >>

PostAlts == << <<"p", "o", "s", "t">>, <<"r", "e", "v">>, <<"r">> >>

DevAlts == << <<"d", "e", "v">> >>

\* The position after the greedy \s* that starts at i.
RECURSIVE SpanSpace(_, _)
SpanSpace(s, i) ==
  IF i <= Len(s) /\ IsSpace(s[i]) THEN SpanSpace(s, i + 1) ELSE i

\* One labelled segment of the PEP 440 pattern,
\*   [-_.]? (label) [-_.]? ([0-9]+)?
\* with the label, one of the alternatives, standing at position p and the
\* segment tried at position i: [ok, label, num (digit string), end].
SegmentNumber(s, label, r) ==
  [ok |-> TRUE, label |-> label, num |-> SubSeq(s, r, SpanDigits(s, r) - 1),
   end |-> SpanDigits(s, r)]

SegmentLabel(s, i, label, q) ==
  IF label = <<>> THEN [ok |-> FALSE, label |-> <<>>, num |-> <<>>, end |-> i]
  ELSE SegmentNumber(s, label, IF q <= Len(s) /\ s[q] \in Separators THEN q + 1 ELSE q)

SegmentAt(s, i, p, alts) ==
  SegmentLabel(s, i, FirstAlt(s, p, alts, TRUE), p + Len(FirstAlt(s, p, alts, TRUE)))

\* The leading separator is taken only when the label follows it (a
\* separator is no label, so the label is looked for after it).
LabelledSegment(s, i, alts) ==
  SegmentAt(s, i, IF i <= Len(s) /\ s[i] \in Separators THEN i + 1 ELSE i, alts)

\* The post-release part at position i: "-N" (implicit post release), or a
\* labelled segment post|rev|r.
PostSegment(s, i) ==
  IF i + 1 <= Len(s) /\ s[i] = "-" /\ IsDigit(s[i + 1])
  THEN SegmentNumber(s, <<"p", "o", "s", "t">>, i + 1)
  ELSE LabelledSegment(s, i, PostAlts)

\* The release segment "1.02.3" as a tuple of ints.
RECURSIVE ReleaseTuple(_)
ReleaseTuple(ds) ==
  LET e == SpanDigits(ds, 1)
  IN IF e > Len(ds) THEN <<StrToInt(ds)>>
     ELSE <<StrToInt(SubSeq(ds, 1, e - 1))>> \o ReleaseTuple(SubSeq(ds, e + 1, Len(ds)))

\* _cmpkey: trailing zeros of the release do not count.
RECURSIVE StripTrailingZeros(_)
StripTrailingZeros(rel) ==
  IF rel # <<>> /\ rel[Len(rel)] = 0
  THEN StripTrailingZeros(SubSeq(rel, 1, Len(rel) - 1))
  ELSE rel

\* _cmpkey's rank of the pre-release letter: alpha -> a, beta -> b,
\* c/pre/preview -> rc.
PreRank(label) ==
  CASE label \in {<<"a", "l", "p", "h", "a">>, <<"a">>} -> 0
    [] label \in {<<"b", "e", "t", "a">>, <<"b">>} -> 1
    [] OTHER -> 2

NumOr0(ds) == IF ds = <<>> THEN 0 ELSE StrToInt(ds)

\* _cmpkey: the release without trailing zeros and the suffix
\* <<pre_rank, pre_n, post_rank, post_n, dev_rank, dev_n>>, where pre_rank is
\* -1 for a dev-only version and 3 without a pre-release, post_rank 0 without
\* a post-release and dev_rank 1 without a dev-release.
CmpKey(release, pre, post, dev) ==
  [ok |-> TRUE,
   release |-> StripTrailingZeros(ReleaseTuple(release)),
   suffix |-> << IF pre.ok THEN PreRank(pre.label)
                 ELSE IF ~post.ok /\ dev.ok THEN -1 ELSE 3,
                 IF pre.ok THEN NumOr0(pre.num) ELSE 0,
                 IF post.ok THEN 1 ELSE 0,
                 IF post.ok THEN NumOr0(post.num) ELSE 0,
                 IF dev.ok THEN 0 ELSE 1,
                 IF dev.ok THEN NumOr0(dev.num) ELSE 0 >>]

\* The end of the pattern: \s* and the end of the string.
PepEnd(s, release, pre, post, dev) ==
  IF SpanSpace(s, dev.end) = Len(s) + 1 THEN CmpKey(release, pre, post, dev)
  ELSE [ok |-> FALSE]

PepDev(s, release, pre, post) ==
  PepEnd(s, release, pre, post, LabelledSegment(s, post.end, DevAlts))

PepPost(s, release, pre) == PepDev(s, release, pre, PostSegment(s, pre.end))

\* The release from position i1 to before position i2, then the pre-release.
PepRelease(s, i1, i2) ==
  IF i2 = i1 THEN [ok |-> FALSE]
  ELSE PepPost(s, SubSeq(s, i1, i2 - 1), LabelledSegment(s, i2, PreAlts))

\* \s* v? before the release, which starts at position i1.
PepPrefix(s, i0) ==
  IF i0 <= Len(s) /\ Lower(s[i0]) = "v"
  THEN PepRelease(s, i0 + 1, SpanDotted(s, i0 + 1))
  ELSE PepRelease(s, i0, SpanDotted(s, i0))

\* packaging.version.parse(s): [ok |-> FALSE] when it raises InvalidVersion,
\* else the version's comparison key.
pkg_version_parse(s) == PepPrefix(s, SpanSpace(s, 1))

\* Python's tuple comparison x < y of two tuples of ints.
RECURSIVE TupleLess(_, _)
TupleLess(x, y) ==
  IF y = <<>> THEN FALSE
  ELSE IF x = <<>> THEN TRUE
  ELSE IF Head(x) = Head(y) THEN TupleLess(Tail(x), Tail(y))
  ELSE Head(x) < Head(y)

\* Version.__lt__: the keys compared as tuples (release, suffix).
VersionLess(va, vb) ==
  \/ TupleLess(va.release, vb.release)
  \/ va.release = vb.release /\ TupleLess(va.suffix, vb.suffix)

----------------------------------------------------------------------------
(* versions.py: serialization and normalization *)

\* __str__ with "if self.suffix_num" for "if self.suffix_num is not None".
GentooVersion_str_truthy(gv) ==
  gv.base \o gv.letter
    \o (IF gv.suffix_type # <<>>
        THEN <<"_">> \o gv.suffix_type
             \o (IF gv.suffix_num > 0 THEN IntToStr(gv.suffix_num) ELSE <<>>)
        ELSE <<>>)
    \o (IF gv.revision # NoInt THEN <<"-", "r">> \o IntToStr(gv.revision) ELSE <<>>)

\* GentooVersion.__str__: the ordinal is printed only with a suffix, and it
\* and the revision are printed whenever they are not None (0 included).
GentooVersion_str(gv) ==
  gv.base \o gv.letter
    \o (IF gv.suffix_type # <<>>
        THEN <<"_">> \o gv.suffix_type
             \o (IF gv.suffix_num # NoInt THEN IntToStr(gv.suffix_num) ELSE <<>>)
        ELSE <<>>)
    \o (IF gv.revision # NoInt THEN <<"-", "r">> \o IntToStr(gv.revision) ELSE <<>>)

\* The message of the VersionError raised for v (lines 66 and 92).
VersionErrorMessage(v) ==
  <<"I", "n", "v", "a", "l", "i", "d", " ", "G", "e", "n", "t", "o", "o", " ",
    "v", "e", "r", "s", "i", "o", "n", " ", "f", "o", "r", "m", "a", "t", ":", " ">> \o v

\* V_PREFIX_RE.sub("", v): "^[vV]" matches at the start of the string only.
V_PREFIX_RE_sub(v) == IF v # <<>> /\ v[1] \in {"v", "V"} THEN Tail(v) ELSE v

\* The position of the first digit of the run of digits of s that ends at e
\* (e + 1 when s[e] is no digit).
RECURSIVE SpanDigitsBack(_, _)
SpanDigitsBack(s, e) ==
  IF e >= 1 /\ IsDigit(s[e]) THEN SpanDigitsBack(s, e - 1) ELSE e + 1

StableLit == <<".", "s", "t", "a", "b", "l", "e", "_">>

\* STABLE_SUFFIX_RE.match(v), ^(?P<base>.+)\.stable_(?P<num>\d+)$, with the
\* match ending at position e and the digits starting at position d:
\* ".stable_" stands right before the digits and the base before it is not
\* empty and has no newline ("." matches no newline).
StableGroups(v, e, d) ==
  IF /\ d <= e
     /\ d - Len(StableLit) > 1
     /\ LitAt(v, d - Len(StableLit), StableLit, FALSE)
     /\ \A k \in 1..(d - Len(StableLit) - 1) : v[k] # "\n"
  THEN [ok |-> TRUE, base |-> SubSeq(v, 1, d - Len(StableLit) - 1), num |-> SubSeq(v, d, e)]
  ELSE [ok |-> FALSE]

\* "$" lets the match end before one trailing newline.
StableEnd(v) == IF v # <<>> /\ v[Len(v)] = "\n" THEN Len(v) - 1 ELSE Len(v)

STABLE_SUFFIX_RE(v) == StableGroups(v, StableEnd(v), SpanDigitsBack(v, StableEnd(v)))

\* The stable-marker rewrite with the ordinal left out.
StableRewrite_bare(v) ==
  IF STABLE_SUFFIX_RE(v).ok THEN STABLE_SUFFIX_RE(v).base \o <<"_", "p">> ELSE v

\* The stable-marker rewrite (lines 82-84 and 134-136): base.stable_N
\* becomes base_pN, any other string stays.
StableRewrite(v) ==
  LET stable_match == STABLE_SUFFIX_RE(v)
  IN IF stable_match.ok THEN stable_match.base \o <<"_", "p">> \o stable_match.num
     ELSE v

\* normalize_gentoo_version(v, lenient): [ok |-> TRUE, value |-> the string
\* returned], or [ok |-> FALSE, value |-> the message] when it raises
\* VersionError.
normalize_gentoo_version(v, lenient) ==
  LET v1 == V_PREFIX_RE_sub(v)
      v2 == IF lenient THEN StableRewrite(v1) ELSE v1
  IN IF GENTOO_VERSION_RE(v2).ok \/ lenient
     THEN [ok |-> TRUE, value |-> v2]
     ELSE [ok |-> FALSE, value |-> VersionErrorMessage(v2)]

\* re.sub(r"^release-", "", tag).
ReleasePrefixSub(tag) ==
  IF LitAt(tag, 1, <<"r", "e", "l", "e", "a", "s", "e", "-">>, FALSE)
  THEN SubSeq(tag, 9, Len(tag)) ELSE tag

\* str.strip(): whitespace removed at both ends.
RECURSIVE StrStrip(_)
StrStrip(s) ==
  IF s = <<>> THEN s
  ELSE IF IsSpace(s[1]) THEN StrStrip(Tail(s))
  ELSE IF IsSpace(s[Len(s)]) THEN StrStrip(SubSeq(s, 1, Len(s) - 1))
  ELSE s

\* normalize_upstream_version that strips the whitespace first.
normalize_upstream_version_stripfirst(tag) ==
  ReleasePrefixSub(V_PREFIX_RE_sub(StrStrip(tag)))

\* normalize_upstream_version(tag).
normalize_upstream_version(tag) == StrStrip(ReleasePrefixSub(V_PREFIX_RE_sub(tag)))

\* re.sub(pattern, replacement, s) from position i on, for a pattern and a
\* replacement without special characters: every occurrence of the pattern,
\* from the left and without overlap, is replaced (count = 0).
RECURSIVE ReSubFrom(_, _, _, _)
ReSubFrom(pattern, replacement, s, i) ==
  IF i > Len(s) THEN <<>>
  ELSE IF LitAt(s, i, pattern, FALSE)
       THEN replacement \o ReSubFrom(pattern, replacement, s, i + Len(pattern))
       ELSE <<s[i]>> \o ReSubFrom(pattern, replacement, s, i + 1)

re_sub(pattern, replacement, s) == ReSubFrom(pattern, replacement, s, 1)

\* The loop of lines 130-132 over suffix_map.items(), in insertion order.
RECURSIVE ApplySuffixMap(_, _)
ApplySuffixMap(suffix_map, v) ==
  IF suffix_map = <<>> THEN v
  ELSE ApplySuffixMap(Tail(suffix_map),
                      re_sub(Head(suffix_map)[1], Head(suffix_map)[2], v))

\* upstream_to_gentoo(upstream, suffix_map), suffix_map a sequence of
\* <<pattern, replacement>> in the order of the dict (<<>> for None).
upstream_to_gentoo(upstream, suffix_map) ==
  StableRewrite(ApplySuffixMap(suffix_map, normalize_upstream_version(upstream)))

----------------------------------------------------------------------------
(* versions.py: compare_versions *)

\* PepInputs with each side translated on its own whenever it parses.
PepInputs_each(x, y) ==
  <<IF parse_gentoo_version(x).ok THEN to_pep440(parse_gentoo_version(x)) ELSE x,
    IF parse_gentoo_version(y).ok THEN to_pep440(parse_gentoo_version(y)) ELSE y>>

\* Lines 102-109: the two strings handed to packaging: the PEP 440
\* translations when both inputs parse strictly, else the raw inputs.
PepInputs(x, y) ==
  LET gv_a == parse_gentoo_version(x)
      gv_b == parse_gentoo_version(y)
  IN IF gv_a.ok /\ gv_b.ok THEN <<to_pep440(gv_a), to_pep440(gv_b)>> ELSE <<x, y>>

\* Python's three-way comparison of the raw strings (lines 120-124).
StrCompare(x, y) == IF StrLess(y, x) THEN 1 ELSE IF StrLess(x, y) THEN -1 ELSE 0

\* The branch of compare_versions that yields the result:
\*   "structured": both inputs parsed strictly and both translations are
\*                 PEP 440 versions;
\*   "raw_pep440": an input failed the strict grammar and both raw inputs
\*                 are PEP 440 versions;
\*   "lexicographic": the raw string comparison of the except branch.
ComparePath(x, y) ==
  LET pep == PepInputs(x, y)
  IN IF pkg_version_parse(pep[1]).ok /\ pkg_version_parse(pep[2]).ok
     THEN IF parse_gentoo_version(x).ok /\ parse_gentoo_version(y).ok
          THEN "structured" ELSE "raw_pep440"
     ELSE "lexicographic"

\* compare_versions with ">=" for ">" in its first test.
compare_versions_ge(x, y) ==
  IF pkg_version_parse(PepInputs(x, y)[1]).ok /\ pkg_version_parse(PepInputs(x, y)[2]).ok
  THEN IF ~VersionLess(pkg_version_parse(PepInputs(x, y)[1]),
                       pkg_version_parse(PepInputs(x, y)[2]))
       THEN 1 ELSE -1
  ELSE StrCompare(x, y)

\* compare_versions that never parses: the raw strings compared.
compare_versions_lex(x, y) == StrCompare(x, y)

\* compare_versions(a, b): 1, -1 or 0.
compare_versions(x, y) ==
  LET pep == PepInputs(x, y)
      va == pkg_version_parse(pep[1])
      vb == pkg_version_parse(pep[2])
  IN IF va.ok /\ vb.ok
     THEN IF VersionLess(vb, va) THEN 1
          ELSE IF VersionLess(va, vb) THEN -1
          ELSE 0
     ELSE StrCompare(x, y)

\* The exception a call of parse_gentoo_version(v) raises ("none" when it
\* returns): line 66 is its only raise.
ParseRaises(v) == IF parse_gentoo_version(v).ok THEN "none" ELSE "VersionError"

\* The exception a call of pkg_version.parse(s) raises ("none" when it
\* returns).
PkgParseRaises(s) == IF pkg_version_parse(s).ok THEN "none" ELSE "InvalidVersion"

\* A handler that lets every exception through.
FirstHandler_none == {}

\* "except VersionError" (line 107): the exceptions the first handler catches.
FirstHandler == {"VersionError"}

\* "except Exception" (line 119): the exceptions the second handler catches.
SecondHandler == {"VersionError", "InvalidVersion"}

\* The exception raised inside the first try (lines 103-106): a's parse runs
\* first, b's only when a's returned.
FirstTryRaises(x, y) ==
  IF ParseRaises(x) # "none" THEN ParseRaises(x) ELSE ParseRaises(y)

\* The exception raised inside the second try (lines 112-118).
SecondTryRaises(x, y) ==
  LET pep == PepInputs(x, y)
  IN IF PkgParseRaises(pep[1]) # "none" THEN PkgParseRaises(pep[1])
     ELSE PkgParseRaises(pep[2])

\* The exception that leaves compare_versions(x, y), "none" when it returns.
compare_versions_raises(x, y) ==
  IF FirstTryRaises(x, y) \notin FirstHandler \cup {"none"} THEN FirstTryRaises(x, y)
  ELSE IF SecondTryRaises(x, y) \notin SecondHandler \cup {"none"} THEN SecondTryRaises(x, y)
  ELSE "none"

----------------------------------------------------------------------------
(* The inputs of the model *)

\* The largest number of dot-separated segments of a generated base.
MaxSegs == 2

\* The largest revision of a generated "-rN".
MaxRev == 1

SegStrs == {<<"0">>, <<"9">>, <<"1", "0">>}

RECURSIVE BasesOfLen(_)
BasesOfLen(k) ==
  IF k = 1 THEN SegStrs
  ELSE {p \o <<".">> \o s : p \in BasesOfLen(k - 1), s \in SegStrs}

\* "0", "9", "10", "0.0", "0.9", ..., "10.10", ...
Bases == UNION {BasesOfLen(k) : k \in 1..MaxSegs}

Letters == {<<"a">>, <<"d">>, <<"r">>}

Tags == {<<"a", "l", "p", "h", "a">>, <<"b", "e", "t", "a">>, <<"p", "r", "e">>,
         <<"r", "c">>, <<"p">>}

\* Ordinals: none, "0", "2", "02", "10".
Ords == {<<>>, <<"0">>, <<"2">>, <<"0", "2">>, <<"1", "0">>}

Suffixes == {<<"_">> \o t \o o : t \in Tags, o \in Ords}

Revs == {<<"-", "r">> \o IntToStr(k) : k \in 0..MaxRev}

\* "1" with every combination of letter and suffix: "1a", "1_p2", "1d_rc10", ...
Tagged == {<<"1">> \o l \o s : l \in Letters \cup {<<>>}, s \in Suffixes \cup {<<>>}}

\* Versions with a revision: "1-r0", "1.9-r1", "1_p2-r1", "1a-r0", ...
Revised == {v \o r : v \in {<<"1">>, <<"1", ".", "9">>, <<"1", "a">>, <<"1", "_", "p", "2">>,
                            <<"1", "_", "p", "r", "e">>},
                     r \in Revs}

\* Strings outside the strict grammar: upstream tags with a v prefix, PEP 440
\* spellings, truncated and empty strings.
Malformed == {<<>>,
              <<"v", "1">>, <<"V", "1", ".", "1", "0">>, <<"v", "1", ".", "9">>,
              <<"1", ".">>, <<"1", "-", "1">>, <<"1", ".", "d", "e", "v", "0">>,
              <<"1", "r", "c", "2">>, <<"v", "1", "r", "c", "1">>, <<" ", "1">>,
              <<"1", "_", "p", "x">>, <<"1", "_", "p", "2", "-", "r">>,
              <<"1", ".", "9", ".", "s", "t", "a", "b", "l", "e", "_", "0", "2">>}

\* A version followed by the newline that "$" lets through.
Newlined == {<<"1", "\n">>, <<"1", ".", "9", "_", "p", "2", "\n">>}

Versions == Bases \cup Tagged \cup Revised \cup Malformed \cup Newlined

\* The inputs of a chain of three comparisons: "0", "9", "10" and "1"
\* with a letter, a suffix or a revision.
Chain == BasesOfLen(1) \cup
         {<<"1">> \o l \o s : l \in {<<>>, <<"a">>, <<"d">>},
                              s \in {<<>>, <<"_", "p", "2">>, <<"_", "p", "r", "e">>, <<"-", "r", "1">>}}

----------------------------------------------------------------------------
(* The caller: one round of comparisons *)

NoResult == [ab |-> 0, ba |-> 0, aa |-> 0, bc |-> 0, ac |-> 0,
             path_ab |-> "none", path_aa |-> "none", raised_ab |-> "none"]

Init ==
  /\ a = <<>>
  /\ b = <<>>
  /\ c = <<>>
  /\ pc = "start"
  /\ res = NoResult
  /\ packages = <<>>
  /\ results = <<>>
  /\ exit_code = NoInt
  /\ args = [version |-> <<>>]
  /\ frame = [valid |-> FALSE]
  /\ tree = {}
  /\ head = <<>>
  /\ log = <<>>

\* The caller compares x with y, y with x and x with itself, for inputs x and
\* y of its choice.
Compare ==
  /\ pc = "start"
  /\ \E x \in Versions, y \in Versions :
       /\ a' = x
       /\ b' = y
       /\ res' = [res EXCEPT !.ab = compare_versions(x, y),
                             !.ba = compare_versions(y, x),
                             !.aa = compare_versions(x, x),
                             !.path_ab = ComparePath(x, y),
                             !.path_aa = ComparePath(x, x),
                             !.raised_ab = compare_versions_raises(x, y)]
  /\ pc' = "compared"
  /\ UNCHANGED <<c, run_vars>>

Next == Compare

Spec == Init /\ [][Next]_vars

\* The caller compares along a chain: x with y, y with z and x with z.
CompareChain ==
  /\ pc = "start"
  /\ \E x \in Chain, y \in Chain, z \in Chain :
       /\ a' = x
       /\ b' = y
       /\ c' = z
       /\ res' = [res EXCEPT !.ab = compare_versions(x, y),
                             !.bc = compare_versions(y, z),
                             !.ac = compare_versions(x, z),
                             !.aa = compare_versions(x, x)]
  /\ pc' = "chained"
  /\ UNCHANGED run_vars

NextChain == CompareChain

SpecChain == Init /\ [][NextChain]_vars

----------------------------------------------------------------------------
(* The caller of the parser and of the normalizers *)

\* The largest number of rewrite rules of a suffix_map.
MaxRules == 2

\* Upstream decorations: none, "v", "V", "release-", "vrelease-", "vv", " ",
\* " v" and "release-v".
Prefixes == {<<>>, <<"v">>, <<"V">>, <<"r", "e", "l", "e", "a", "s", "e", "-">>,
             <<"v", "r", "e", "l", "e", "a", "s", "e", "-">>, <<"v", "v">>, <<" ">>,
             <<" ", "v">>, <<"r", "e", "l", "e", "a", "s", "e", "-", "v">>}

\* What a decoration is put in front of: versions, versions with whitespace
\* after them, the empty string and a word.
Cores == {<<>>, <<"1">>, <<"1", ".", "9">>, <<"1", "a">>, <<"1", "_", "p", "2">>,
          <<"1", "_", "r", "c", "0", "2", "-", "r", "1">>, <<"1", " ">>, <<"1", "\n">>,
          <<"1", ".", "9", "\n", "\n">>, <<"x">>,
          <<"1", ".", "s", "t", "a", "b", "l", "e", "_", "0", "4">>}

UpstreamTags == {p \o s : p \in Prefixes, s \in Cores}

\* The ordinals of a stable marker: "0", "4", "04", "10".
StableNums == {<<"0">>, <<"4">>, <<"0", "4">>, <<"1", "0">>}

\* B.stable_N for the generated bases B.
Stables == {bs \o StableLit \o n : bs \in Bases, n \in StableNums}

\* Strings around the stable marker that are no B.stable_N: no ordinal, no
\* base, a newline after or inside, a revision after, two markers, a letter
\* and a v before.
NearStables == {<<"1">> \o StableLit, StableLit \o <<"4">>,
                <<"1">> \o StableLit \o <<"4", "\n">>,
                <<"1">> \o StableLit \o <<"4", "-", "r", "1">>,
                <<"1", "\n">> \o StableLit \o <<"4">>,
                <<"1">> \o StableLit \o <<"4">> \o StableLit \o <<"5">>,
                <<"1", "a">> \o StableLit \o <<"2">>,
                <<"v", "1", ".", "9">> \o StableLit \o <<"0", "4">>,
                <<"1", "_", "p", "0", "-", "r", "0">>,
                <<"1", "-", "r", "0", "1">>}

Texts == Versions \cup UpstreamTags \cup Stables \cup NearStables

\* The rewrite rules a caller supplies: "-" to ".", "-" to "_", "_" to ".",
\* "-stable-" to ".stable_".
Rules == {<< <<"-">>, <<".">> >>, << <<"-">>, <<"_">> >>, << <<"_">>, <<".">> >>,
          << <<"-", "s", "t", "a", "b", "l", "e", "-">>, StableLit >>}

\* The suffix maps of up to n rules, as sequences in insertion order; the
\* patterns differ, as they are the keys of a dict.
RECURSIVE SuffixMapsOfLen(_)
SuffixMapsOfLen(n) ==
  IF n = 0 THEN {<<>>}
  ELSE {Append(m, r) : m \in SuffixMapsOfLen(n - 1), r \in Rules}

SuffixMaps ==
  {m \in UNION {SuffixMapsOfLen(n) : n \in 0..MaxRules} :
     \A i \in 1..Len(m), j \in 1..Len(m) : i # j => m[i][1] # m[j][1]}

\* Upstream tags with separators for the rules to rewrite.
Upstreams == {<<"1", "-", "2", "-", "3">>, <<"v", "1", "-", "2">>, <<"1", "_", "2", "-", "3">>,
              <<"1", ".", "2", "-", "s", "t", "a", "b", "l", "e", "-", "0", "4">>,
              <<"r", "e", "l", "e", "a", "s", "e", "-", "1", "-", "2", "_", "3", "-", "4">>,
              <<"1", ".", "2">>, <<"V", "1", ".", "9">> \o StableLit \o <<"4">>,
              <<" ", "1", "-", "2", " ">>, <<>>}

\* The caller parses v, prints the result and parses the print again.
Parse ==
  /\ pc = "start"
  /\ \E v \in Texts :
       LET gv == parse_gentoo_version(v)
       IN /\ a' = v
          /\ b' = IF gv.ok THEN GentooVersion_str(gv) ELSE <<>>
          /\ res' = [gv |-> gv,
                     reparsed |-> IF gv.ok THEN parse_gentoo_version(GentooVersion_str(gv))
                                  ELSE [ok |-> FALSE],
                     raised |-> ParseRaises(v),
                     message |-> IF gv.ok THEN <<>> ELSE VersionErrorMessage(v)]
  /\ pc' = "parsed"
  /\ UNCHANGED <<c, run_vars>>

\* The caller normalizes v, strictly or leniently.
NormalizeGentoo ==
  /\ pc = "start"
  /\ \E v \in Texts, lenient \in BOOLEAN :
       /\ a' = v
       /\ b' = normalize_gentoo_version(v, lenient).value
       /\ res' = [lenient |-> lenient, ok |-> normalize_gentoo_version(v, lenient).ok]
  /\ pc' = "normalized"
  /\ UNCHANGED <<c, run_vars>>

\* The caller normalizes an upstream tag.
NormalizeUpstream ==
  /\ pc = "start"
  /\ \E tag \in Texts :
       /\ a' = tag
       /\ b' = normalize_upstream_version(tag)
  /\ pc' = "stripped"
  /\ UNCHANGED <<c, res, run_vars>>

\* The caller maps an upstream tag to the Gentoo form with its rules.
UpstreamToGentoo ==
  /\ pc = "start"
  /\ \E upstream \in Upstreams \cup Stables, suffix_map \in SuffixMaps :
       /\ a' = upstream
       /\ b' = upstream_to_gentoo(upstream, suffix_map)
       /\ res' = [suffix_map |-> suffix_map]
  /\ pc' = "mapped"
  /\ UNCHANGED <<c, run_vars>>

NextNormalize == Parse \/ NormalizeGentoo \/ NormalizeUpstream \/ UpstreamToGentoo

SpecNormalize == Init /\ [][NextNormalize]_vars

----------------------------------------------------------------------------
(* cli/check_updates.py: check_package and main *)

\* check_package with "cmp <= 0" for "cmp < 0".
check_package_le(pkg) ==
  IF ~pkg.has_ebuild THEN [status |-> "error", current_version |-> <<>>, latest_version |-> <<>>]
  ELSE [status |-> IF compare_versions(pkg.pv, normalize_upstream_version(pkg.tag)) <= 0
                   THEN "update-available" ELSE "up-to-date",
        current_version |-> pkg.pv,
        latest_version |-> normalize_upstream_version(pkg.tag)]

\* check_package for a package pkg:
\*   has_ebuild, pv: get_package_latest_ebuild found an ebuild, of version pv;
\*   github_repo: a GitHub repository is known from SRC_URI or metadata.xml;
\*   custom_url: get_custom_url knows a vendor page;
\*   release, tag: get_latest_release returns a release of that tag ("found"),
\*                 returns None ("none") or raises GitHubAPIError ("error").
\* The result is the PackageStatus: status, current_version and
\* latest_version (<<>> for None); release.version is the tag normalized by
\* normalize_upstream_version (github.py, lines 132-136).
check_package(pkg) ==
  IF ~pkg.has_ebuild
  THEN [status |-> "error", current_version |-> <<>>, latest_version |-> <<>>]
  ELSE IF pkg.github_repo /\ pkg.release = "found"
  THEN [status |-> IF compare_versions(pkg.pv, normalize_upstream_version(pkg.tag)) < 0
                   THEN "update-available" ELSE "up-to-date",
        current_version |-> pkg.pv,
        latest_version |-> normalize_upstream_version(pkg.tag)]
  ELSE [status |-> IF pkg.custom_url THEN "manual-check"
                   ELSE IF pkg.github_repo THEN "error"
                   ELSE "unknown",
        current_version |-> pkg.pv,
        latest_version |-> <<>>]

\* The exit code of main (lines 236-241).
ExitCode(rs) ==
  IF \E i \in 1..Len(rs) : rs[i].status = "error" THEN 1
  ELSE IF \E i \in 1..Len(rs) : rs[i].status = "update-available" THEN 0
  ELSE 2

\* The largest number of packages of an overlay.
MaxPkgs == 2

\* The versions of the ebuilds and the tags of the releases.
CurrentVersions == {<<"6", ".", "4", ".", "4", "7">>, <<"1", ".", "2", ".", "3", "_", "p", "1">>,
                    <<"1", ".", "2", ".", "3">>}

ReleaseTags == {<<"v", "6", ".", "4", ".", "4", "8">>, <<"1", ".", "2", ".", "3">>,
                <<"V", "1", ".", "2", ".", "3">>,
                <<"r", "e", "l", "e", "a", "s", "e", "-", "1", ".", "2", ".", "4">>}

\* Packages with a release resolved, and packages without: no ebuild, no
\* repository, no release, an API error, each with or without a vendor page.
PackageKinds ==
  {[has_ebuild |-> TRUE, pv |-> v, github_repo |-> TRUE, custom_url |-> FALSE,
    release |-> "found", tag |-> tg] : v \in CurrentVersions, tg \in ReleaseTags}
  \cup
  {[has_ebuild |-> e, pv |-> IF e THEN <<"1", ".", "2", ".", "3">> ELSE <<>>,
    github_repo |-> g, custom_url |-> u, release |-> r, tag |-> <<>>] :
     e \in BOOLEAN, g \in BOOLEAN, u \in BOOLEAN, r \in {"none", "error"}}

RECURSIVE OverlaysOfLen(_)
OverlaysOfLen(n) ==
  IF n = 0 THEN {<<>>}
  ELSE {Append(o, k) : o \in OverlaysOfLen(n - 1), k \in PackageKinds}

\* The packages find_packages finds in an overlay.
Overlays == UNION {OverlaysOfLen(n) : n \in 0..MaxPkgs}

\* main up to the loop: without an overlay root it returns 1; else the
\* packages are those of the overlay, or with --package (package_arg > 0,
\* the position standing for the atom) the one of that atom, if any.
Main ==
  /\ pc = "start"
  /\ \E overlay_root \in BOOLEAN, overlay \in Overlays, package_arg \in 0..(MaxPkgs + 1) :
       IF ~overlay_root
       THEN /\ packages' = <<>>
            /\ exit_code' = 1
            /\ pc' = "exited"
       ELSE /\ packages' = IF package_arg = 0 THEN overlay
                           ELSE IF package_arg <= Len(overlay) THEN <<overlay[package_arg]>>
                           ELSE <<>>
            /\ exit_code' = NoInt
            /\ pc' = "checking"
  /\ results' = <<>>
  /\ UNCHANGED <<a, b, c, res, args, frame, tree, head, log>>

\* One turn of the loop of main (lines 225-229).
CheckNext ==
  /\ pc = "checking"
  /\ Len(results) < Len(packages)
  /\ results' = Append(results, check_package(packages[Len(results) + 1]))
  /\ UNCHANGED <<a, b, c, pc, res, packages, exit_code, args, frame, tree, head, log>>

\* The end of main: the report is printed and the exit code returned.
Exit ==
  /\ pc = "checking"
  /\ Len(results) = Len(packages)
  /\ exit_code' = ExitCode(results)
  /\ pc' = "reported"
  /\ UNCHANGED <<a, b, c, res, packages, results, args, frame, tree, head, log>>

NextCheck == Main \/ CheckNext \/ Exit

SpecCheck == Init /\ [][NextCheck]_vars

----------------------------------------------------------------------------
(* core/ebuilds.py: select_latest_ebuild *)

\* An ebuild is modelled by its version pv: the ebuilds of a package have the
\* same pn, and the path follows from pn and pv. A list of ebuilds is a
\* sequence of versions.

\* "9999" in pv.
Contains9999(pv) ==
  \E i \in 1..Len(pv) : LitAt(pv, i, <<"9", "9", "9", "9">>, FALSE)

\* [e for e in ebuilds if "9999" not in e.pv] (line 79), and the list itself
\* without exclude_live.
RECURSIVE Candidates(_, _)
Candidates(ebuilds, exclude_live) ==
  IF ebuilds = <<>> THEN <<>>
  ELSE IF exclude_live /\ Contains9999(Head(ebuilds))
       THEN Candidates(Tail(ebuilds), exclude_live)
       ELSE <<Head(ebuilds)>> \o Candidates(Tail(ebuilds), exclude_live)

\* key(x) > key(y) for the key of line 84, the tuple
\* (compare_versions(e.pv, "0"), e.pv): the first components decide, and
\* when they are equal the versions compared as strings.
KeyGreater(x, y) ==
  LET kx == compare_versions(x, <<"0">>)
      ky == compare_versions(y, <<"0">>)
  IN kx > ky \/ (kx = ky /\ StrLess(y, x))

\* max(candidates, key = ...): the first of the largest, found from the left.
RECURSIVE MaxByKey(_, _)
MaxByKey(best, rest) ==
  IF rest = <<>> THEN best
  ELSE MaxByKey(IF KeyGreater(Head(rest), best) THEN Head(rest) ELSE best, Tail(rest))

\* select_latest_ebuild(ebuilds, exclude_live): [ok |-> FALSE] for None.
select_latest_ebuild(ebuilds, exclude_live) ==
  LET candidates == Candidates(ebuilds, exclude_live)
  IN IF candidates = <<>> THEN [ok |-> FALSE]
     ELSE [ok |-> TRUE, pv |-> MaxByKey(Head(candidates), Tail(candidates))]

\* The largest number of ebuilds of a package.
MaxEbuilds == 3

\* The versions of the ebuilds of a package: "0", "9", "10", "1d", "0.9",
\* "0.10", the live "9999" and "1.9999", and "19999".
EbuildVersions == {<<"0">>, <<"9">>, <<"1", "0">>, <<"1", "d">>, <<"0", ".", "9">>,
                   <<"0", ".", "1", "0">>, <<"9", "9", "9", "9">>,
                   <<"1", ".", "9", "9", "9", "9">>, <<"1", "9", "9", "9", "9">>}

\* The lists of up to n different ebuilds, in the order of the directory.
RECURSIVE EbuildListsOfLen(_)
EbuildListsOfLen(n) ==
  IF n = 0 THEN {<<>>}
  ELSE {Append(l, v) : l \in EbuildListsOfLen(n - 1), v \in EbuildVersions}

EbuildLists ==
  {l \in UNION {EbuildListsOfLen(n) : n \in 0..MaxEbuilds} :
     \A i \in 1..Len(l), j \in 1..Len(l) : i # j => l[i] # l[j]}

\* A caller selects the latest ebuild of a list.
SelectLatest ==
  /\ pc = "start"
  /\ \E ebuilds \in EbuildLists, exclude_live \in BOOLEAN :
       res' = [ebuilds |-> ebuilds, exclude_live |-> exclude_live,
               latest |-> select_latest_ebuild(ebuilds, exclude_live)]
  /\ pc' = "selected"
  /\ UNCHANGED <<a, b, c, run_vars>>

----------------------------------------------------------------------------
(* core/gh_utils.py: gh_find_open_update_pr_for_package *)

\* A branch name is a sequence of its characters, with the literal "update/"
\* of the branch names kept as one element.

\* s.startswith(prefix).
StartsWith(s, prefix) ==
  Len(s) >= Len(prefix) /\ SubSeq(s, 1, Len(prefix)) = prefix

\* branch_prefix = f"update/{category}-{name}".
branch_prefix(category, name) == <<"update/">> \o category \o <<"-">> \o name

\* matches of lines 104-116: the listed pull requests that pass the test of
\* lines 112-115; base is <<>> for None, and an empty base is no filter
\* either.
RECURSIVE MatchingPrs(_, _, _)
MatchingPrs(data, prefix, base) ==
  IF data = <<>> THEN <<>>
  ELSE IF /\ \/ Head(data).headRefName = prefix
             \/ StartsWith(Head(data).headRefName, prefix \o <<"-">>)
          /\ ~(base # <<>> /\ Head(data).baseRefName # base)
       THEN <<Head(data)>> \o MatchingPrs(Tail(data), prefix, base)
       ELSE MatchingPrs(Tail(data), prefix, base)

\* The first element after the stable sort by updatedAt, reverse = True: the
\* first of the list among those with the largest updatedAt.
RECURSIVE MostRecent(_, _)
MostRecent(best, rest) ==
  IF rest = <<>> THEN best
  ELSE MostRecent(IF StrLess(best.updatedAt, Head(rest).updatedAt) THEN Head(rest) ELSE best,
                  Tail(rest))

\* gh_find_open_update_pr_for_package(category, name, base) on the list data
\* that "gh pr list --state open" prints: [ok |-> FALSE] for None.
gh_find_open_update_pr_for_package(data, category, name, base) ==
  LET matching_prs == MatchingPrs(data, branch_prefix(category, name), base)
  IN IF matching_prs = <<>> THEN [ok |-> FALSE]
     ELSE LET pr == MostRecent(Head(matching_prs), Tail(matching_prs))
          IN [ok |-> TRUE, number |-> pr.number, state |-> pr.state,
              head_ref |-> pr.headRefName]

\* The largest number of open pull requests.
MaxPrs == 2

\* The category and the packages of the overlay: f and f-b.
Category == <<"c">>
PackageNames == {<<"f">>, <<"f", "-", "b">>}

\* The head branches of the open pull requests: the update branches of the
\* packages, new and legacy, and the update branch of a third package g.
HeadRefs ==
  {<<"update/">> \o Category \o <<"-">> \o n : n \in PackageNames}
    \cup {<<"update/">> \o Category \o <<"-">> \o n \o <<"-", "1">> : n \in PackageNames}
    \cup {<<"update/">> \o Category \o <<"-", "g">>}

\* The base branches, and the times of the last update: 1 and 2.
BaseRefs == {<<"m">>, <<"d">>}

\* What gh lists: open pull requests, numbered by their place in the list.
RECURSIVE PrListsOfLen(_)
PrListsOfLen(n) ==
  IF n = 0 THEN {<<>>}
  ELSE {Append(l, [number |-> n, state |-> "OPEN", headRefName |-> h,
                   baseRefName |-> g, updatedAt |-> u]) :
          l \in PrListsOfLen(n - 1), h \in HeadRefs, g \in BaseRefs, u \in {<<"1">>, <<"2">>}}

PrLists == UNION {PrListsOfLen(n) : n \in 0..MaxPrs}

\* A caller looks for the open update pull request of a package.
FindOpenPr ==
  /\ pc = "start"
  /\ \E data \in PrLists, name \in PackageNames, base \in {<<>>} \cup BaseRefs :
       res' = [data |-> data, name |-> name, base |-> base,
               pr |-> gh_find_open_update_pr_for_package(data, Category, name, base)]
  /\ pc' = "looked"
  /\ UNCHANGED <<a, b, c, run_vars>>

----------------------------------------------------------------------------
(* core/git_utils.py: git_checkout_branch *)

\* A command is the sequence of its arguments, each a sequence of characters
\* with the literal words kept as one element.
GitRevParse(branch) == <<<<"git">>, <<"rev-parse">>, <<"--verify">>, branch>>
GitFetch(remote, branch) == <<<<"git">>, <<"fetch">>, remote, branch>>
GitCheckoutTrack(branch) ==
  <<<<"git">>, <<"checkout">>, <<"--track">>, <<"origin/">> \o branch>>

\* The command of lines 112-118; start_point is <<>> for None.
GitCheckout(branch, create, start_point) ==
  <<<<"git">>, <<"checkout">>>>
    \o (IF create THEN <<<<"-b">>>> ELSE <<>>)
    \o <<branch>>
    \o (IF start_point # <<>> THEN <<start_point>> ELSE <<>>)

\* git_checkout_branch that fetches and tracks whether or not the branch
\* exists locally.
git_checkout_branch_alwaystrack(branch, create, start_point, track_remote, env) ==
  LET final == GitCheckout(branch, create, start_point)
  IN IF track_remote /\ ~create
     THEN IF env.track_ok
          THEN [cmds |-> <<GitRevParse(branch), GitFetch(<<"origin">>, branch),
                           GitCheckoutTrack(branch)>>,
                raised |-> FALSE]
          ELSE [cmds |-> <<GitRevParse(branch), GitFetch(<<"origin">>, branch),
                           GitCheckoutTrack(branch), final>>,
                raised |-> ~env.checkout_ok]
     ELSE [cmds |-> <<final>>, raised |-> ~env.checkout_ok]

\* git_checkout_branch(branch, create, start_point, track_remote): the
\* commands it runs, in order, and whether it raises CalledProcessError.
\* env holds the outcomes of the commands: local_exists for the return code
\* of rev-parse, track_ok for that of checkout --track, checkout_ok for the
\* final checkout; the return code of the fetch is not looked at.
git_checkout_branch(branch, create, start_point, track_remote, env) ==
  LET final == GitCheckout(branch, create, start_point)
  IN IF track_remote /\ ~create
     THEN IF env.local_exists
          THEN [cmds |-> <<GitRevParse(branch), final>>, raised |-> ~env.checkout_ok]
          ELSE IF env.track_ok
               THEN [cmds |-> <<GitRevParse(branch), GitFetch(<<"origin">>, branch),
                                GitCheckoutTrack(branch)>>,
                     raised |-> FALSE]
               ELSE [cmds |-> <<GitRevParse(branch), GitFetch(<<"origin">>, branch),
                                GitCheckoutTrack(branch), final>>,
                     raised |-> ~env.checkout_ok]
     ELSE [cmds |-> <<final>>, raised |-> ~env.checkout_ok]

\* The outcomes of the git commands of a checkout.
CheckoutEnvs == [local_exists : BOOLEAN, track_ok : BOOLEAN, checkout_ok : BOOLEAN]

\* A caller checks out a branch.
CheckoutBranch ==
  /\ pc = "start"
  /\ \E branch \in HeadRefs, create \in BOOLEAN, start_point \in {<<>>} \cup BaseRefs,
        track_remote \in BOOLEAN, env \in CheckoutEnvs :
       res' = [branch |-> branch, create |-> create, start_point |-> start_point,
               track_remote |-> track_remote, env |-> env,
               out |-> git_checkout_branch(branch, create, start_point, track_remote, env)]
  /\ pc' = "checkedout"
  /\ UNCHANGED <<a, b, c, run_vars>>

NextHelpers == SelectLatest \/ FindOpenPr \/ CheckoutBranch

SpecHelpers == Init /\ [][NextHelpers]_vars

----------------------------------------------------------------------------
(* cli/update_ebuild.py: main *)

\* The package of the run, f of category c (pkg_path.name and
\* pkg_path.parent.name), and the pn of its ebuilds.
PackageName == <<"f">>

\* f"update/{category}-{name}".
generate_branch_name(category, name) == <<"update/">> \o category \o <<"-">> \o name

\* f"{pn}-{pv}.ebuild", the file name of an ebuild in the package directory.
EbuildFileName(pn, pv) == pn \o <<"-">> \o pv \o <<".ebuild">>

\* The commands and file operations of a run are logged as they are
\* executed, each the sequence of its words: copy2, update_ebuild_var,
\* unlink, ebuild manifest, git add, git commit, git push, gh pr edit and gh
\* pr create. The text of the pull request body is left out of the gh
\* commands.
GitPush(remote, br) == <<<<"git">>, <<"push">>, <<"-u">>, remote, br>>
GhPrEdit(number, title) ==
  <<<<"gh">>, <<"pr">>, <<"edit">>, IntToStr(number), <<"--title">>, title>>
GhPrCreate(title, head_ref, base) ==
  <<<<"gh">>, <<"pr">>, <<"create">>, <<"--title">>, title,
    <<"--head">>, head_ref, <<"--base">>, base>>

\* min(ebuilds, key = cmp_to_key(compare_versions on pv)): the scan keeps the
\* element at hand unless the next one compares below it.
RECURSIVE MinByCmp(_, _)
MinByCmp(best, rest) ==
  IF rest = <<>> THEN best
  ELSE MinByCmp(IF compare_versions(Head(rest), best) < 0 THEN Head(rest) ELSE best,
                Tail(rest))

\* The files find_ebuilds lists.
Files(ebuilds) == {ebuilds[k] : k \in 1..Len(ebuilds)}

\* commit_msg of lines 343-345; dropped_version is <<>> for None.
CommitMsg(fr) ==
  Category \o <<"/">> \o PackageName \o <<": add ">> \o fr.normalized_version
    \o (IF fr.dropped_version # <<>> THEN <<", drop ">> \o fr.dropped_version
        ELSE <<>>)

\* The test of line 222 that never sends the run to the dry-run branch.
DryRunBranch_never(opts) == FALSE

\* if args.dry_run (line 222).
DryRunBranch(opts) == opts.dry_run

\* The branch of line 290 without the reuse of the head branch of the pull
\* request.
FeatureBranch_generated(existing_pr_ref, feature_branch) == feature_branch

\* feature_branch after lines 289-290.
FeatureBranch(existing_pr_ref, feature_branch) ==
  IF existing_pr_ref.ok THEN existing_pr_ref.head_ref ELSE feature_branch

\* The pull request section with a failed edit returning 1.
PrSection_editfails(fr, title, env) ==
  LET push == GitPush(<<"origin">>, fr.feature_branch)
  IN IF ~env.gh_ok THEN [cmds |-> <<>>, code |-> 1, result |-> "gh missing"]
     ELSE IF ~env.push_ok THEN [cmds |-> <<push>>, code |-> 1, result |-> "push failed"]
     ELSE IF fr.existing_pr_ref.ok
          THEN [cmds |-> <<push, GhPrEdit(fr.existing_pr_ref.number, title)>>,
                code |-> IF env.pr_ok THEN 0 ELSE 1,
                result |-> IF env.pr_ok THEN "updated" ELSE "update failed"]
          ELSE [cmds |-> <<push, GhPrCreate(title, fr.feature_branch, fr.base_branch)>>,
                code |-> IF env.pr_ok THEN 0 ELSE 1,
                result |-> IF env.pr_ok THEN "created" ELSE "creation failed"]

\* Lines 393-451: the commands run, the value returned and the message
\* logged last. env holds the outcomes: gh_ok for gh_require_available,
\* push_ok for git push, pr_ok for gh pr edit or gh_create_pr.
PrSection(fr, title, env) ==
  LET push == GitPush(<<"origin">>, fr.feature_branch)
  IN IF ~env.gh_ok THEN [cmds |-> <<>>, code |-> 1, result |-> "gh missing"]
     ELSE IF ~env.push_ok THEN [cmds |-> <<push>>, code |-> 1, result |-> "push failed"]
     ELSE IF fr.existing_pr_ref.ok
          THEN [cmds |-> <<push, GhPrEdit(fr.existing_pr_ref.number, title)>>,
                code |-> 0,
                result |-> IF env.pr_ok THEN "updated" ELSE "update failed"]
          ELSE [cmds |-> <<push, GhPrCreate(title, fr.feature_branch, fr.base_branch)>>,
                code |-> IF env.pr_ok THEN 0 ELSE 1,
                result |-> IF env.pr_ok THEN "created" ELSE "creation failed"]

\* The command lines: a version that is new, one that may be there already
\* or one that is no version (9, 1d and x), and the flags (--base and
\* --branch not given).
UpdateArgs ==
  [version : {<<"9">>, <<"1", "d">>, <<"x">>}, lenient : {FALSE}, dry_run : BOOLEAN, skip_git : BOOLEAN,
   keep_old : BOOLEAN, pr : BOOLEAN, yes : BOOLEAN, skip_manifest : BOOLEAN,
   my_pv : BOOLEAN, base : {<<>>}, branch : {<<>>}]

\* The package directories: a path that is no directory, or ebuilds of the
\* versions 1d, 9999 (live) and 19999 in the order of the glob.
PackageDirs ==
  {[is_dir |-> FALSE, ebuilds |-> <<>>]}
    \cup {[is_dir |-> TRUE, ebuilds |-> l] :
            l \in {m \in EbuildLists :
                     \A k \in 1..Len(m) :
                       m[k] \in {<<"1", "d">>, <<"9", "9", "9", "9">>,
                                 <<"1", "9", "9", "9", "9">>}}}

\* The branch origin/HEAD points to.
DefaultBranch == <<"m">>

\* The local variables of main at line 220; None is <<>>, and for
\* existing_pr_ref [ok |-> FALSE].
Locals(opts, dir, repo, normalized_version, latest) ==
  [valid |-> TRUE, dir |-> dir, repo |-> repo,
   normalized_version |-> normalized_version,
   ebuilds |-> dir.ebuilds,
   latest |-> latest,
   oldest |-> IF Len(dir.ebuilds) > 1
              THEN MinByCmp(Head(dir.ebuilds), Tail(dir.ebuilds)) ELSE latest,
   base_branch |-> IF opts.base # <<>> THEN opts.base ELSE DefaultBranch,
   feature_branch |-> IF opts.branch # <<>> THEN opts.branch
                      ELSE generate_branch_name(Category, PackageName),
   original_branch |-> repo.branch,
   existing_pr_ref |-> [ok |-> FALSE],
   dropped_version |-> <<>>,
   pr_result |-> ""]

\* The checks of lines 171-207 that make main return 1 (the version, the
\* directory, its ebuilds, a non-live ebuild among them, the new file), and
\* past them the local variables.
StartFrame(opts, dir, repo, normalized, latest) ==
  IF \/ ~normalized.ok
     \/ ~dir.is_dir
     \/ dir.ebuilds = <<>>
     \/ ~latest.ok
     \/ normalized.value \in Files(dir.ebuilds)
  THEN [valid |-> FALSE, dir |-> dir, repo |-> repo]
  ELSE Locals(opts, dir, repo, normalized.value, latest.pv)

\* main up to line 220: the arguments (--pr implies --yes), the checks that
\* return 1, and the local variables. The package directory lies outside a
\* git repository, or in one with the default branch or the update branch of
\* the package checked out.
UpdateStart ==
  /\ pc = "start"
  /\ \E opts \in UpdateArgs, dir \in PackageDirs,
        repo \in {[is_git |-> FALSE, branch |-> <<>>],
                  [is_git |-> TRUE, branch |-> DefaultBranch],
                  [is_git |-> TRUE,
                   branch |-> generate_branch_name(Category, PackageName)]} :
       /\ args' = [opts EXCEPT !.yes = opts.yes \/ opts.pr]
       /\ frame' = StartFrame(opts, dir, repo,
                              normalize_gentoo_version(opts.version, opts.lenient),
                              select_latest_ebuild(dir.ebuilds, TRUE))
       /\ tree' = Files(dir.ebuilds)
       /\ head' = repo.branch
  /\ pc' = IF frame'.valid THEN "validated" ELSE "exited"
  /\ exit_code' = IF frame'.valid THEN NoInt ELSE 1
  /\ log' = <<>>
  /\ UNCHANGED <<a, b, c, res, packages, results>>

\* The dry-run branch (lines 222-267): messages only, and with --pr the
\* listing of the open pull requests; returns 0.
DryRun ==
  /\ pc = "validated"
  /\ DryRunBranch(args)
  /\ exit_code' = 0
  /\ pc' = "exited"
  /\ UNCHANGED <<a, b, c, res, packages, results, args, frame, tree, head, log>>

\* existing_pr_ref after lines 281-297: None when gh is missing or the
\* listing fails, else what the listing gives.
ExistingPr(lookup, data, base) ==
  IF lookup = "listed"
  THEN gh_find_open_update_pr_for_package(data, Category, PackageName, base)
  ELSE [ok |-> FALSE]

\* The effect of a checkout of br: its commands, and the branch checked out
\* unless it raised, which ends the run at pc_raised.
CheckedOut(out, br, pc_done, pc_raised) ==
  /\ log' = log \o out.cmds
  /\ head' = IF out.raised THEN head ELSE br
  /\ pc' = IF out.raised THEN pc_raised ELSE pc_done
  /\ exit_code' = IF out.raised THEN 1 ELSE exit_code

\* Lines 270-308: with --pr in a git repository the open pull request of the
\* package is looked up (gh missing, the listing failing, or a listing of at
\* most one pull request) and the feature branch checked out: a local branch
\* plainly, a remote one tracking it, a new one from the base branch. A
\* failing checkout raises.
SwitchBranch ==
  /\ pc = "validated"
  /\ ~DryRunBranch(args)
  /\ IF args.pr /\ frame.repo.is_git
     THEN \E lookup \in {"missing", "failed", "listed"},
             data \in PrListsOfLen(0) \cup PrListsOfLen(1),
             exists \in {"local", "remote", "none"}, env \in CheckoutEnvs :
            /\ env.local_exists = (exists = "local")
            /\ frame' = [frame EXCEPT
                           !.existing_pr_ref = ExistingPr(lookup, data, frame.base_branch),
                           !.feature_branch =
                             FeatureBranch(ExistingPr(lookup, data, frame.base_branch),
                                           frame.feature_branch)]
            /\ CheckedOut(git_checkout_branch(
                            frame'.feature_branch, exists = "none",
                            IF exists = "none" THEN frame.base_branch ELSE <<>>,
                            exists = "remote", env),
                          frame'.feature_branch, "switched", "raised")
     ELSE /\ pc' = "switched"
          /\ UNCHANGED <<frame, log, head, exit_code>>
  /\ UNCHANGED <<a, b, c, res, packages, results, args, tree>>

\* The test of line 321.
RemovesOldest(opts, fr) == ~opts.keep_old /\ fr.oldest # fr.latest

\* The file operations of lines 313-336: update_ebuild_var for MY_PV, the
\* unlink of the oldest ebuild, and ebuild manifest.
FileOps(opts, fr) ==
  (IF opts.my_pv
   THEN <<<<<<"update_ebuild_var">>, EbuildFileName(PackageName, fr.normalized_version),
            <<"MY_PV">>>>>>
   ELSE <<>>)
    \o (IF RemovesOldest(opts, fr)
        THEN <<<<<<"unlink">>, EbuildFileName(PackageName, fr.oldest)>>>> ELSE <<>>)
    \o (IF opts.skip_manifest THEN <<>>
        ELSE <<<<<<"ebuild">>, EbuildFileName(PackageName, fr.normalized_version),
                 <<"manifest">>>>>>)

\* Lines 310-336: the copy, which may raise, MY_PV, the removal of the oldest
\* ebuild and the Manifest, whose failure is only a warning.
UpdateFiles ==
  /\ pc = "switched"
  /\ \E copy_ok \in BOOLEAN :
       /\ log' = Append(log, <<<<"copy2">>, EbuildFileName(PackageName, frame.latest),
                               EbuildFileName(PackageName, frame.normalized_version)>>)
                   \o (IF copy_ok THEN FileOps(args, frame) ELSE <<>>)
       /\ IF ~copy_ok
          THEN /\ pc' = "raised"
               /\ exit_code' = 1
               /\ UNCHANGED <<tree, frame>>
          ELSE /\ tree' = (tree \cup {frame.normalized_version})
                            \ (IF RemovesOldest(args, frame) THEN {frame.oldest} ELSE {})
               /\ frame' = [frame EXCEPT !.dropped_version =
                                           IF RemovesOldest(args, frame) THEN frame.oldest
                                           ELSE <<>>]
               /\ pc' = "updated"
               /\ UNCHANGED exit_code
  /\ UNCHANGED <<a, b, c, res, packages, results, args, head>>

\* Lines 338-341: with --skip-git or outside a git repository the run is done.
SkipGit ==
  /\ pc = "updated"
  /\ args.skip_git \/ ~frame.repo.is_git
  /\ exit_code' = 0
  /\ pc' = "exited"
  /\ UNCHANGED <<a, b, c, res, packages, results, args, frame, tree, head, log>>

\* git add of paths_to_add (lines 349-351, 372).
GitAdd(fr) ==
  <<<<"git">>, <<"add">>, <<"--">>,
    EbuildFileName(PackageName, fr.normalized_version), <<"Manifest">>>>
    \o (IF fr.dropped_version # <<>>
        THEN <<EbuildFileName(PackageName, fr.dropped_version)>> ELSE <<>>)

\* Lines 343-382: the commit, asked for on the terminal without --yes and
\* --pr; git add and git commit may raise; without --pr the run is done.
Commit ==
  /\ pc = "updated"
  /\ ~(args.skip_git \/ ~frame.repo.is_git)
  /\ \E answer \in BOOLEAN, add_ok \in BOOLEAN, commit_ok \in BOOLEAN :
       IF ~(args.yes \/ args.pr \/ answer)
       THEN /\ exit_code' = 0
            /\ pc' = "exited"
            /\ UNCHANGED log
       ELSE /\ log' = Append(log, GitAdd(frame))
                        \o (IF add_ok
                            THEN <<<<<<"git">>, <<"commit">>, <<"-m">>, CommitMsg(frame)>>>>
                            ELSE <<>>)
            /\ exit_code' = IF ~add_ok \/ ~commit_ok THEN 1
                            ELSE IF args.pr THEN exit_code ELSE 0
            /\ pc' = IF ~add_ok \/ ~commit_ok THEN "raised"
                     ELSE IF args.pr THEN "committed" ELSE "exited"
  /\ UNCHANGED <<a, b, c, res, packages, results, args, frame, tree, head>>

\* The try block of lines 392-451: gh is looked for, the branch pushed and
\* the pull request edited or created; the value to return is kept for the
\* finally clause.
PushAndPr ==
  /\ pc = "committed"
  /\ \E env \in [gh_ok : BOOLEAN, push_ok : BOOLEAN, pr_ok : BOOLEAN] :
       /\ log' = log \o PrSection(frame, CommitMsg(frame), env).cmds
       /\ exit_code' = PrSection(frame, CommitMsg(frame), env).code
       /\ frame' = [frame EXCEPT
                      !.pr_result = PrSection(frame, CommitMsg(frame), env).result]
  /\ pc' = "finally"
  /\ UNCHANGED <<a, b, c, res, packages, results, args, tree, head>>

\* The finally clause (lines 452-455): back to the original branch, unless
\* it is the feature branch; a failing checkout raises in place of the
\* return.
Finally ==
  /\ pc = "finally"
  /\ IF frame.original_branch # <<>> /\ frame.original_branch # frame.feature_branch
     THEN \E env \in CheckoutEnvs :
            CheckedOut(git_checkout_branch(frame.original_branch, FALSE, <<>>, FALSE, env),
                       frame.original_branch, "exited", "raised")
     ELSE /\ pc' = "exited"
          /\ UNCHANGED <<log, head, exit_code>>
  /\ UNCHANGED <<a, b, c, res, packages, results, args, frame, tree>>

NextUpdate ==
  UpdateStart \/ DryRun \/ SwitchBranch \/ UpdateFiles \/ SkipGit \/ Commit
    \/ PushAndPr \/ Finally

SpecUpdate == Init /\ [][NextUpdate]_vars

----------------------------------------------------------------------------
(* The claims *)

Strict(v) == parse_gentoo_version(v).ok

\* The fields above the revision are equal.
SameUpToRevision(x, y) ==
  /\ x.base = y.base
  /\ x.letter = y.letter
  /\ x.suffix_type = y.suffix_type
  /\ x.suffix_num = y.suffix_num

\* A base with an optional letter, and nothing else.
IsReleaseOf(x) == x.suffix_type = <<>> /\ x.revision = NoInt

\* A bare base.
IsPlain(x) == x.letter = <<>> /\ x.suffix_type = <<>> /\ x.revision = NoInt

Sign(n) == IF n > 0 THEN 1 ELSE IF n < 0 THEN -1 ELSE 0

OrZero(n) == IF n = NoInt THEN 0 ELSE n

\* The rank of a pre-release tag: alpha < beta < pre < rc.
TagRank(tag) ==
  CASE tag = <<"a", "l", "p", "h", "a">> -> 1
    [] tag = <<"b", "e", "t", "a">> -> 2
    [] tag = <<"p", "r", "e">> -> 3
    [] tag = <<"r", "c">> -> 4
    [] OTHER -> 0

IsPreRelease(x) == TagRank(x.suffix_type) > 0

\* The order of two bases, component by component from the left by integer
\* value, a missing component counting as 0.
RECURSIVE PaddedOrder(_, _, _)
PaddedOrder(x, y, i) ==
  IF i > Len(x) /\ i > Len(y) THEN 0
  ELSE LET xi == IF i <= Len(x) THEN x[i] ELSE 0
           yi == IF i <= Len(y) THEN y[i] ELSE 0
       IN IF xi = yi THEN PaddedOrder(x, y, i + 1) ELSE Sign(xi - yi)

BaseOrder(x, y) == PaddedOrder(ReleaseTuple(x.base), ReleaseTuple(y.base), 1)

\* The three-way PEP 440 order of two raw strings that are PEP 440 versions.
PepOrder(x, y) ==
  IF VersionLess(pkg_version_parse(y), pkg_version_parse(x)) THEN 1
  ELSE IF VersionLess(pkg_version_parse(x), pkg_version_parse(y)) THEN -1
  ELSE 0

\* C1: on strings of the strict grammar compare_versions is a consistent
\* order: a compares Equal to itself, and a Less than b and b Less than c
\* give a Less than c.
C1_ConsistentOrder ==
  (pc = "chained" /\ Strict(a) /\ Strict(b) /\ Strict(c)) =>
    /\ res.aa = 0
    /\ (res.ab = -1 /\ res.bc = -1) => res.ac = -1

\* C2: for every pair of strings, valid or malformed, compare_versions(a, b)
\* and compare_versions(b, a) are exact inverses: Less against Greater, Equal
\* against Equal.
C2_ExactInverses ==
  pc = "compared" => (res.ab \in {-1, 0, 1} /\ res.ba = 0 - res.ab)

\* C2's case: a malformed string against a valid version, ordered one way
\* and the other.
C2_Witness ==
  pc = "compared" /\ ~Strict(a) /\ Strict(b) /\ res.ab = -1 /\ res.ba = 1

\* C3: the revision is the last tiebreaker: versions equal in base, letter
\* and suffix are ordered by revision, an absent revision counting as 0, and
\* bare bases that differ are ordered by the bases whatever their revisions.
C3_RevisionTiebreak ==
  (pc = "compared" /\ Strict(a) /\ Strict(b)) =>
    LET x == parse_gentoo_version(a)
        y == parse_gentoo_version(b)
    IN /\ SameUpToRevision(x, y) =>
            res.ab = Sign(OrZero(x.revision) - OrZero(y.revision))
       /\ (x.letter = <<>> /\ y.letter = <<>> /\ x.suffix_type = <<>>
           /\ y.suffix_type = <<>> /\ BaseOrder(x, y) # 0) =>
            res.ab = BaseOrder(x, y)

\* C4: with the same base and letter, pre-release tags rank alpha < beta <
\* pre < rc whatever their ordinals, and the same tag is ordered by ordinal,
\* a missing ordinal counting as 0.
C4_PreReleaseRank ==
  (pc = "compared" /\ Strict(a) /\ Strict(b)) =>
    LET x == parse_gentoo_version(a)
        y == parse_gentoo_version(b)
    IN (x.base = y.base /\ x.letter = y.letter /\ IsPreRelease(x) /\ IsPreRelease(y)
        /\ x.revision = NoInt /\ y.revision = NoInt) =>
         res.ab = IF TagRank(x.suffix_type) # TagRank(y.suffix_type)
                  THEN Sign(TagRank(x.suffix_type) - TagRank(y.suffix_type))
                  ELSE Sign(OrZero(x.suffix_num) - OrZero(y.suffix_num))

\* C5: a pre-release ranks below its release: v_alpha, v_beta, v_pre and
\* v_rc, with any ordinal or none, compare Less than v, for v a base with
\* an optional letter.
C5_PreReleaseBelowRelease ==
  (pc = "compared" /\ Strict(a) /\ Strict(b)) =>
    LET x == parse_gentoo_version(a)
        y == parse_gentoo_version(b)
    IN (x.base = y.base /\ x.letter = y.letter /\ IsPreRelease(x)
        /\ x.revision = NoInt /\ IsReleaseOf(y)) =>
         res.ab = -1

\* C6: a patch suffix ranks above the release: v_pN (N any ordinal or none)
\* compares Greater than v, and v_pM Greater than v_pN when M > N as
\* integers, for v a base with an optional letter.
C6_PatchAboveRelease ==
  (pc = "compared" /\ Strict(a) /\ Strict(b)) =>
    LET x == parse_gentoo_version(a)
        y == parse_gentoo_version(b)
    IN (x.base = y.base /\ x.letter = y.letter /\ x.suffix_type = <<"p">>
        /\ x.revision = NoInt /\ y.revision = NoInt) =>
         /\ y.suffix_type = <<>> => res.ab = 1
         /\ (y.suffix_type = <<"p">> /\ x.suffix_num # NoInt /\ y.suffix_num # NoInt
             /\ x.suffix_num > y.suffix_num) => res.ab = 1

\* C7: with the same base, a version with a letter compares Greater than the
\* version without one, and two letters are ordered alphabetically.
C7_LetterOrder ==
  (pc = "compared" /\ Strict(a) /\ Strict(b)) =>
    LET x == parse_gentoo_version(a)
        y == parse_gentoo_version(b)
    IN (x.base = y.base /\ IsReleaseOf(x) /\ IsReleaseOf(y)) =>
         /\ (x.letter # <<>> /\ y.letter = <<>>) => res.ab = 1
         /\ (x.letter # <<>> /\ y.letter # <<>>) =>
              res.ab = Sign(Ord(x.letter[1]) - Ord(y.letter[1]))

\* C8: bases are compared component by component from the left by integer
\* value (9.10 above 9.9), the shorter base padded with zero components
\* (9.0 equal to 9, 9.9 and 9.0.9 above 9).
C8_BaseOrder ==
  (pc = "compared" /\ Strict(a) /\ Strict(b)) =>
    LET x == parse_gentoo_version(a)
        y == parse_gentoo_version(b)
    IN (IsPlain(x) /\ IsPlain(y)) => res.ab = BaseOrder(x, y)

\* C8's case: "9.10" against "9.9" is Greater (as strings it is smaller).
C8_Witness ==
  /\ pc = "compared"
  /\ a = <<"9", ".", "1", "0">>
  /\ b = <<"9", ".", "9">>
  /\ res.ab = 1
  /\ StrLess(a, b)

C10_FallbackObservable ==
  (pc = "compared" /\ res.ab = res.aa) =>
    ((res.path_ab = "structured") <=> (res.path_aa = "structured"))

AllDigits(s) == \A k \in 1..Len(s) : IsDigit(s[k])

IsBase(s) ==
  /\ s # <<>>
  /\ IsDigit(s[1])
  /\ IsDigit(s[Len(s)])
  /\ \A k \in 1..Len(s) : IsDigit(s[k]) \/ s[k] = "."
  /\ \A k \in 1..(Len(s) - 1) : ~(s[k] = "." /\ s[k + 1] = ".")

IsLetterPart(s) == s = <<>> \/ (Len(s) = 1 /\ IsLower(s[1]))

IsSuffixPart(s) ==
  \/ s = <<>>
  \/ \E tag \in Tags :
       /\ LitAt(s, 1, <<"_">> \o tag, FALSE)
       /\ AllDigits(SubSeq(s, Len(tag) + 2, Len(s)))

IsRevisionPart(s) ==
  \/ s = <<>>
  \/ (Len(s) >= 3 /\ s[1] = "-" /\ s[2] = "r" /\ AllDigits(SubSeq(s, 3, Len(s))))

IsGrammar(v) ==
  \E i \in 1..Len(v), j \in 1..(Len(v) + 1), k \in 1..(Len(v) + 1) :
    /\ i < j + 1
    /\ j <= k
    /\ IsBase(SubSeq(v, 1, i))
    /\ IsLetterPart(SubSeq(v, i + 1, j - 1))
    /\ IsSuffixPart(SubSeq(v, j, k - 1))
    /\ IsRevisionPart(SubSeq(v, k, Len(v)))

\* s without its leading v or V, if it has one.
OneVRemoved(s) ==
  IF Len(s) >= 1 /\ SubSeq(s, 1, 1) \in {<<"v">>, <<"V">>}
  THEN SubSeq(s, 2, Len(s)) ELSE s

\* s without its leading "release-", if it has one.
ReleaseRemoved(s) ==
  LET lit == <<"r", "e", "l", "e", "a", "s", "e", "-">>
  IN IF Len(s) >= Len(lit) /\ SubSeq(s, 1, Len(lit)) = lit
     THEN SubSeq(s, Len(lit) + 1, Len(s)) ELSE s

\* t is s without the whitespace around it.
IsTrimmed(s, t) ==
  \E i \in 1..(Len(s) + 1), j \in 0..Len(s) :
    /\ t = SubSeq(s, i, j)
    /\ \A k \in 1..(i - 1) : IsSpace(s[k])
    /\ \A k \in (j + 1)..Len(s) : IsSpace(s[k])
    /\ t # <<>> => (~IsSpace(t[1]) /\ ~IsSpace(t[Len(t)]))

\* s with the first occurrence of pattern replaced.
RECURSIVE SubFirstFrom(_, _, _, _)
SubFirstFrom(pattern, replacement, s, i) ==
  IF i > Len(s) THEN s
  ELSE IF LitAt(s, i, pattern, FALSE)
       THEN SubSeq(s, 1, i - 1) \o replacement \o SubSeq(s, i + Len(pattern), Len(s))
       ELSE SubFirstFrom(pattern, replacement, s, i + 1)

\* The rules applied in order, each to its first match only.
RECURSIVE FirstMatchRules(_, _)
FirstMatchRules(rules, s) ==
  IF rules = <<>> THEN s
  ELSE FirstMatchRules(Tail(rules), SubFirstFrom(Head(rules)[1], Head(rules)[2], s, 1))

\* C12: the print of a parsed version is the string that was parsed: for
\* every string s that parse_gentoo_version accepts, str of the result is s.
C12_StringRoundTrip ==
  (pc = "parsed" /\ res.gv.ok) => b = a

\* C13: printing a parsed version and parsing the print gives the same
\* GentooVersion field by field, ordinals and revisions equal to 0 and
\* suffixes without an ordinal included.
C13_StructuredRoundTrip ==
  (pc = "parsed" /\ res.gv.ok) => (res.reparsed.ok /\ res.reparsed = res.gv)

\* C13's case: a version with ordinal 0 and revision 0 survives the round.
C13_Witness ==
  /\ pc = "parsed"
  /\ res.gv.ok
  /\ res.gv.suffix_num = 0
  /\ res.gv.revision = 0
  /\ res.reparsed = res.gv

\* C14: strict parsing is anchored on the full string: a GentooVersion is
\* returned only when the entire input is of the grammar, and every other
\* input, a version followed by an extra character included, fails with a
\* VersionError whose message carries the input.
C14_AnchoredOnFullString ==
  pc = "parsed" =>
    /\ res.gv.ok <=> IsGrammar(a)
    /\ ~IsGrammar(a) =>
         /\ res.raised = "VersionError"
         /\ Len(res.message) >= Len(a)
         /\ SubSeq(res.message, Len(res.message) - Len(a) + 1, Len(res.message)) = a

\* C15: normalize_gentoo_version fails exactly when lenient is False and the
\* input without one leading v or V is not of the strict grammar; with
\* lenient it never fails, and without lenient every string it returns is of
\* the strict grammar.
C15_NormalizeFailsExactly ==
  pc = "normalized" =>
    /\ ~res.ok <=> (~res.lenient /\ ~IsGrammar(OneVRemoved(a)))
    /\ (res.ok /\ ~res.lenient) => IsGrammar(b)

\* C16: for a numeric base B and digits N, the lenient normalization of
\* B.stable_N is a string of the strict grammar that compares Equal to
\* B_p<int(N)>.
C16_StableRewriteEquivalent ==
  (pc = "normalized" /\ res.lenient) =>
    \A bs \in Bases, n \in StableNums :
      a = bs \o StableLit \o n =>
        /\ res.ok
        /\ IsGrammar(b)
        /\ Strict(b)
        /\ compare_versions(b, bs \o <<"_", "p">> \o IntToStr(StrToInt(n))) = 0
        /\ compare_versions_raises(b, bs \o <<"_", "p">> \o IntToStr(StrToInt(n))) = "none"

\* C16's case: "9.stable_04" becomes "9_p04", which is not the string "9_p4".
C16_Witness ==
  /\ pc = "normalized"
  /\ res.lenient
  /\ a = <<"9">> \o StableLit \o <<"0", "4">>
  /\ b = <<"9", "_", "p", "0", "4">>
  /\ ComparePath(b, <<"9", "_", "p", "4">>) = "structured"

\* C17: normalize_upstream_version returns, for every string, the input
\* with one leading v or V removed, then a leading "release-" removed, then
\* the whitespace around it trimmed; so for a version s of the strict
\* grammar, "v" + s, "V" + s and "release-" + s all give s.
C17_UpstreamDecorationsStripped ==
  pc = "stripped" =>
    /\ IsTrimmed(ReleaseRemoved(OneVRemoved(a)), b)
    /\ \A p \in {<<"v">>, <<"V">>, <<"r", "e", "l", "e", "a", "s", "e", "-">>} :
         (Len(a) > Len(p) /\ SubSeq(a, 1, Len(p)) = p
          /\ IsGrammar(SubSeq(a, Len(p) + 1, Len(a)))) =>
           b = SubSeq(a, Len(p) + 1, Len(a))

\* C17's case: "vrelease-1 " loses the v, the "release-" and the blank.
C17_Witness ==
  /\ pc = "stripped"
  /\ a = <<"v", "r", "e", "l", "e", "a", "s", "e", "-", "1", " ">>
  /\ b = <<"1">>

\* C18: upstream_to_gentoo applies normalize_upstream_version, then the
\* caller's rules in the order supplied, each rewriting only its first
\* match, and then the stable-marker rewrite.
C18_RulesFirstMatchInOrder ==
  pc = "mapped" =>
    b = StableRewrite(FirstMatchRules(res.suffix_map, normalize_upstream_version(a)))

\* C19: when a release is resolved for a package, check_package reports
\* update-available exactly when compare_versions(current version,
\* normalized upstream version) is Less, and up-to-date when it is Equal or
\* Greater: 6.4.47 against tag v6.4.48 is update-available, 1.2.3_p1
\* against 1.2.3 is up-to-date.
C19_UpdateDecision ==
  \A i \in 1..Len(results) :
    (packages[i].has_ebuild /\ packages[i].github_repo /\ packages[i].release = "found") =>
      LET cmp == compare_versions(packages[i].pv, normalize_upstream_version(packages[i].tag))
      IN /\ results[i].status \in {"update-available", "up-to-date"}
         /\ results[i].status = "update-available" <=> cmp = -1
         /\ results[i].status = "up-to-date" <=> cmp \in {0, 1}
         /\ (packages[i].pv = <<"6", ".", "4", ".", "4", "7">>
             /\ packages[i].tag = <<"v", "6", ".", "4", ".", "4", "8">>) =>
               results[i].status = "update-available"
         /\ (packages[i].pv = <<"1", ".", "2", ".", "3", "_", "p", "1">>
             /\ packages[i].tag = <<"1", ".", "2", ".", "3">>) =>
               results[i].status = "up-to-date"

\* C19's case: an overlay with 6.4.47 against v6.4.48 and 1.2.3_p1 against
\* 1.2.3, checked.
C19_Witness ==
  /\ Len(results) = 2
  /\ results[1].current_version = <<"6", ".", "4", ".", "4", "7">>
  /\ results[1].latest_version = <<"6", ".", "4", ".", "4", "8">>
  /\ results[1].status = "update-available"
  /\ results[2].current_version = <<"1", ".", "2", ".", "3", "_", "p", "1">>
  /\ results[2].latest_version = <<"1", ".", "2", ".", "3">>
  /\ results[2].status = "up-to-date"

\* C20: check-updates exits with 0 when updates are available, with 1 when
\* errors occurred and with 2 when all packages are up-to-date: 2 only if
\* every checked package is up-to-date, 0 only if some package is
\* update-available.
C20_ExitCodes ==
  pc = "reported" =>
    /\ exit_code \in {0, 1, 2}
    /\ exit_code = 2 => \A i \in 1..Len(results) : results[i].status = "up-to-date"
    /\ exit_code = 0 => \E i \in 1..Len(results) : results[i].status = "update-available"
    /\ exit_code = 1 => \E i \in 1..Len(results) : results[i].status = "error"

\* The elements of a sequence.
Range(s) == {s[k] : k \in 1..Len(s)}

\* A live ebuild: a component of its version is 9999.
IsLive(pv) ==
  \/ pv = <<"9", "9", "9", "9">>
  \/ (Len(pv) > 5 /\ SubSeq(pv, Len(pv) - 4, Len(pv)) = <<".", "9", "9", "9", "9">>)

\* C21: select_latest_ebuild returns the newest candidate: no other
\* candidate of a non-empty list exceeds the version of the returned ebuild
\* under compare_versions (from 1.9.0 and 1.10.0 it returns 1.10.0).
C21_LatestIsNewest ==
  (pc = "selected" /\ res.latest.ok) =>
    \A v \in Range(Candidates(res.ebuilds, res.exclude_live)) :
      compare_versions(v, res.latest.pv) <= 0

\* C22: with exclude_live select_latest_ebuild excludes exactly the live
\* ebuilds: it never returns a live ebuild, never ignores a non-live one,
\* and returns None if and only if the list has no non-live ebuild; without
\* exclude_live the live ebuilds take part in the selection.
C22_ExcludesExactlyLive ==
  pc = "selected" =>
    /\ res.exclude_live =>
         /\ ~res.latest.ok <=> \A v \in Range(res.ebuilds) : IsLive(v)
         /\ res.latest.ok => ~IsLive(res.latest.pv)
         /\ Range(Candidates(res.ebuilds, TRUE)) = {v \in Range(res.ebuilds) : ~IsLive(v)}
    /\ ~res.exclude_live =>
         /\ res.latest.ok <=> res.ebuilds # <<>>
         /\ Candidates(res.ebuilds, FALSE) = res.ebuilds

\* The update branches of a package: update/{category}-{name}, and the legacy
\* update/{category}-{name}-{version} with a version, which starts with a
\* digit.
IsUpdateBranchOf(head_ref, category, name) ==
  LET prefix == <<"update/">> \o category \o <<"-">> \o name
  IN \/ head_ref = prefix
     \/ /\ StartsWith(head_ref, prefix \o <<"-">>)
        /\ Len(head_ref) > Len(prefix) + 1
        /\ IsDigit(head_ref[Len(prefix) + 2])

\* The listed pull requests of a package on the base asked for.
PrsOfPackage(data, name, base) ==
  {k \in 1..Len(data) :
     /\ IsUpdateBranchOf(data[k].headRefName, Category, name)
     /\ base # <<>> => data[k].baseRefName = base}

\* C26: gh_find_open_update_pr_for_package returns only a pull request of
\* the given package: the returned PR is open, its head branch is the
\* package's update branch (new or legacy) and not the branch of a different
\* package, its base is the base asked for, and it is the most recently
\* updated of the matches; a PR is returned when the package has one.
C26_OnlyThisPackage ==
  pc = "looked" =>
    LET own == PrsOfPackage(res.data, res.name, res.base)
    IN /\ res.pr.ok <=> own # {}
       /\ res.pr.ok =>
            /\ res.pr.number \in own
            /\ res.pr.state = "OPEN"
            /\ res.pr.head_ref = res.data[res.pr.number].headRefName
            /\ \A n \in PackageNames \ {res.name} :
                 ~IsUpdateBranchOf(res.pr.head_ref, Category, n)
            /\ \A k \in own :
                 ~StrLess(res.data[res.pr.number].updatedAt, res.data[k].updatedAt)

\* git checkout <branch>, with the start point after it when one is given.
IsPlainCheckout(cmd, branch, start_point) ==
  /\ SubSeq(cmd, 1, 3) = <<<<"git">>, <<"checkout">>, branch>>
  /\ cmd = IF start_point = <<>> THEN <<<<"git">>, <<"checkout">>, branch>>
           ELSE <<<<"git">>, <<"checkout">>, branch, start_point>>

\* C28: with track_remote and without create, git_checkout_branch first
\* checks whether the branch exists locally; if it does, it runs a plain
\* checkout without fetching; if not, it fetches the branch from origin and
\* runs git checkout --track origin/<branch>, stops there when that
\* succeeds and falls back to a plain checkout when it fails. With create
\* it runs the one command git checkout -b <branch> [start_point].
C28_CheckoutProtocol ==
  pc = "checkedout" =>
    LET cmds == res.out.cmds
        br == res.branch
    IN /\ (res.track_remote /\ ~res.create) =>
            /\ cmds[1] = <<<<"git">>, <<"rev-parse">>, <<"--verify">>, br>>
            /\ res.env.local_exists =>
                 /\ Len(cmds) = 2
                 /\ IsPlainCheckout(cmds[2], br, res.start_point)
            /\ ~res.env.local_exists =>
                 /\ Len(cmds) >= 3
                 /\ cmds[2] = <<<<"git">>, <<"fetch">>, <<"origin">>, br>>
                 /\ cmds[3] = <<<<"git">>, <<"checkout">>, <<"--track">>, <<"origin/">> \o br>>
                 /\ res.env.track_ok => Len(cmds) = 3 /\ ~res.out.raised
                 /\ ~res.env.track_ok =>
                      Len(cmds) = 4 /\ IsPlainCheckout(cmds[4], br, res.start_point)
       /\ res.create =>
            cmds = <<IF res.start_point = <<>>
                     THEN <<<<"git">>, <<"checkout">>, <<"-b">>, br>>
                     ELSE <<<<"git">>, <<"checkout">>, <<"-b">>, br, res.start_point>>>>

\* A branch missing locally is fetched and tracked; one that exists locally
\* is checked out without a fetch; a failed tracking checkout falls back.
C28_Witness ==
  /\ pc = "checkedout"
  /\ res.track_remote /\ ~res.create /\ res.start_point = <<>>
  /\ ~res.env.local_exists /\ ~res.env.track_ok
  /\ Len(res.out.cmds) = 4
  /\ res.out.cmds[4] = <<<<"git">>, <<"checkout">>, res.branch>>

\* The git commands of the log with the given word after git, and the gh pr
\* commands with the given word after pr.
GitCommands(word) ==
  {k \in 1..Len(log) : log[k][1] = <<"git">> /\ log[k][2] = <<word>>}

GhPrCommands(word) ==
  {k \in 1..Len(log) : log[k][1] = <<"gh">> /\ log[k][3] = <<word>>}

\* The package directory and the branch as the run found them.
Unchanged ==
  /\ tree = Files(frame.dir.ebuilds)
  /\ head = frame.repo.branch
  /\ log = <<>>

C24_RemovesOnlyLowest ==
  (pc # "start" /\ ~args.dry_run) =>
    LET removed == Files(frame.dir.ebuilds) \ tree
    IN /\ Cardinality(removed) <= 1
       /\ args.keep_old => removed = {}
       /\ \A r \in removed :
            /\ \A e \in Files(frame.dir.ebuilds) : compare_versions(r, e) <= 0
            /\ r # frame.latest
            /\ r # frame.normalized_version

\* C25: a run given --skip-git runs no git checkout, add, commit or push and
\* leaves the current branch as it was, whatever the other options.
C25_SkipGitRunsNoGit ==
  (pc # "start" /\ args.skip_git) =>
    /\ head = frame.repo.branch
    /\ GitCommands("checkout") \cup GitCommands("add")
         \cup GitCommands("commit") \cup GitCommands("push") = {}

\* The checkouts of the branch br that lines 299-308 can run.
FeatureCheckouts(br, base) ==
  {<<<<"git">>, <<"checkout">>, br>>,
   <<<<"git">>, <<"checkout">>, <<"--track">>, <<"origin/">> \o br>>,
   <<<<"git">>, <<"checkout">>, <<"-b">>, br, base>>}

\* The checkout of the finally clause: the last command of a run that went
\* through the pull request section.
IsRestore(k) ==
  /\ k = Len(log)
  /\ pc \in {"exited", "raised"}
  /\ frame.pr_result # ""
  /\ log[k] = <<<<"git">>, <<"checkout">>, frame.original_branch>>

\* C27: in a --pr run that found an open update pull request, the branch
\* checked out and pushed is the head branch of that pull request, that pull
\* request is edited once the push is through, and no pull request is
\* created; a pull request is created only when none was found, and at most
\* one per run.
C27_ReusesBranchAndPr ==
  (pc # "start" /\ frame.valid) =>
    /\ frame.existing_pr_ref.ok =>
         /\ args.pr
         /\ frame.feature_branch = frame.existing_pr_ref.head_ref
         /\ GitCommands("checkout") # {}
         /\ \A k \in GitCommands("checkout") :
              \/ log[k] \in FeatureCheckouts(frame.existing_pr_ref.head_ref,
                                             frame.base_branch)
              \/ IsRestore(k)
         /\ pc \notin {"validated", "raised"} => head = frame.existing_pr_ref.head_ref
                                                   \/ IsRestore(Len(log))
         /\ \A k \in GitCommands("push") :
              log[k] = <<<<"git">>, <<"push">>, <<"-u">>, <<"origin">>,
                         frame.existing_pr_ref.head_ref>>
         /\ GhPrCommands("create") = {}
         /\ \A k \in GhPrCommands("edit") :
              log[k][4] = IntToStr(frame.existing_pr_ref.number)
         /\ frame.pr_result \notin {"", "gh missing", "push failed"} =>
              GhPrCommands("edit") # {}
    /\ GhPrCommands("create") # {} => ~frame.existing_pr_ref.ok
    /\ Cardinality(GhPrCommands("create")) <= 1
    /\ Cardinality(GhPrCommands("edit")) <= 1

\* A run that found a pull request on a legacy branch, not the branch it
\* would have generated, pushed to that branch and edited the pull request.
C27_Witness ==
  /\ pc = "exited"
  /\ frame.valid
  /\ frame.existing_pr_ref.ok
  /\ frame.existing_pr_ref.head_ref # <<"update/", "c", "-", "f">>
  /\ frame.pr_result = "updated"
  /\ GitCommands("push") # {}
  /\ GhPrCommands("edit") # {}
  /\ exit_code = 0

\* C29: every non-dry --pr run in a git repository ends on the branch that
\* was current when it started, however it ends after the switch to the
\* feature branch.
C29_BranchRestored ==
  (pc \in {"exited", "raised"} /\ frame.valid /\ ~args.dry_run /\ args.pr
     /\ frame.repo.is_git) =>
    head = frame.original_branch

\* C30: the commit comes before the push and the push before the creation or
\* edit of the pull request; with gh missing after the commit nothing is
\* pushed and main returns 1; with a failed push no pull request is created
\* or edited and main returns 1; a failed creation returns 1 and a failed
\* edit 0.
C30_PrWorkflowOrder ==
  (pc # "start" /\ frame.valid) =>
    LET prs == GhPrCommands("create") \cup GhPrCommands("edit")
        returns == pc \in {"finally", "exited"}
    IN /\ \A i \in GitCommands("push") : \E j \in GitCommands("commit") : j < i
       /\ \A i \in prs : \E j \in GitCommands("push") : j < i
       /\ frame.pr_result = "gh missing" =>
            GitCommands("push") = {} /\ prs = {} /\ (returns => exit_code = 1)
       /\ frame.pr_result = "push failed" =>
            prs = {} /\ (returns => exit_code = 1)
       /\ frame.pr_result = "creation failed" => (returns => exit_code = 1)
       /\ frame.pr_result = "update failed" => (returns => exit_code = 0)
       /\ frame.pr_result \in {"updated", "created"} => (returns => exit_code = 0)

\* A run whose edit of the existing pull request failed, after commit and
\* push, and which returned 0.
C30_Witness ==
  /\ pc = "exited"
  /\ frame.valid
  /\ frame.pr_result = "update failed"
  /\ GitCommands("commit") # {} /\ GitCommands("push") # {}
  /\ GhPrCommands("edit") # {}
  /\ exit_code = 0

====
